---- MODULE Spec2Model ----
(***************************************************************************)
(* A model of notion-exporter (src/notion_exporter).                       *)
(*                                                                         *)
(*   Spec      the Export Orchestrator: NotionExporter.export_pages and    *)
(*             the level recursion of _async_export_pages                  *)
(*   SpecLive  the same, with the fairness of the asyncio event loop       *)
(*   SpecCrawl the Tree Crawler: the concurrent _get_block_content tasks   *)
(*   SpecRetry the tenacity @retry wrapper around the five Gateway         *)
(*             operations                                                  *)
(*   SpecTable the head of one _get_block_content call: the delimiter row  *)
(*             of a table and the rendering of the listing                 *)
(*   SpecList  the numbered list counters of one BlockConverter            *)
(*   SpecNorm  NotionExporter._normalize_id                                *)
(*                                                                         *)
(* A Python Optional[T] is modelled as a set of at most one T: None is {}  *)
(* and a value x is {x}.  Strings that the program takes apart or puts     *)
(* together (titles, paths) are sequences of one-character strings.        *)
(***************************************************************************)
EXTENDS Integers, Sequences, FiniteSets, TLC

VARIABLES
    \* ---- the Gateway's content and the exporter's configuration (Export)
    edges,                    \* the page/database graph the Gateway serves
    export_child_pages,       \* NotionExporter.export_child_pages
    exclude_title_containing, \* NotionExporter.exclude_title_containing
    req,                      \* the arguments of export_pages
    \* ---- the locals of _async_export_pages (Export)
    pc,                       \* position of the run
    depth,                    \* recursion level of _async_export_pages
    page_ids, database_ids, ids_to_exclude,
    parent_page_ids,          \* ParentOf
    page_paths,               \* PathIndex
    extracted_pages,
    child_pages, child_databases,
    pending,                  \* roots whose task of the running gather is not done
    page_details_results, page_content_results,
    database_details_results, database_content_results,
    todo,                     \* roots the for loop has not reached yet
    \* ---- history of the run (Export)
    metaCalls, contentCalls,  \* per id: root metadata / content fetches started
    failed,                   \* roots whose metadata fetch or crawl raised
    inaccessible,             \* databases the Gateway failed as not found or invalid
    dropped,                  \* roots skipped by the title filter
    discovered,               \* per root: the ids its content fetch returned
    regBy,                    \* per id: roots that registered it before it was composed
    \* ---- one crawl of the Tree Crawler (Crawl)
    par,                      \* the Gateway's block tree: the parent of each block
    btype,                    \* the type of each block
    task,                     \* the _get_block_content call of each block id
    crawl_child_page_ids,     \* the child_page_ids set the calls share
    finished,                 \* the calls that returned, in the order they did
    \* ---- one call of a retry-wrapped Gateway operation (Retry)
    call,                     \* the wrapped calls in progress
    \* ---- the head of one _get_block_content call, block by block (Table)
    fetched,                  \* the list _get_child_blocks returned
    table_blocks,             \* blocks, once lines 178-179 have run
    markdown_rows,            \* the blocks rendered so far
    table_pc,                 \* position of the call
    \* ---- one BlockConverter over the batches of listings it renders (List)
    numbered_list_counters,   \* BlockConverter._numbered_list_counters
    numbered_lines,           \* the numbered list items rendered so far
    batch,                    \* the fetch call whose blocks are being rendered
    \* ---- calls of _normalize_id, each on the result of the one before (Norm)
    notion_id,                \* the argument of the first call
    outcomes                  \* what the calls did, in their order

exportVars == <<edges, export_child_pages, exclude_title_containing, req, pc, depth,
                page_ids, database_ids, ids_to_exclude, parent_page_ids, page_paths,
                extracted_pages, child_pages, child_databases, pending,
                page_details_results, page_content_results,
                database_details_results, database_content_results, todo,
                metaCalls, contentCalls, failed, inaccessible, dropped, discovered, regBy>>

crawlVars == <<par, btype, task, crawl_child_page_ids, finished>>

retryVars == <<call>>

tableVars == <<fetched, table_blocks, markdown_rows, table_pc>>

listVars == <<numbered_list_counters, numbered_lines, batch>>

normVars == <<notion_id, outcomes>>

vars == <<exportVars, crawlVars, retryVars, tableVars, listVars, normVars>>

\* what the Export Orchestrator's steps leave alone
notExport == <<crawlVars, retryVars, tableVars, listVars, normVars>>
\* what the Tree Crawler's steps leave alone
notCrawl == <<exportVars, retryVars, tableVars, listVars, normVars>>
\* what the Retry Policy's steps leave alone
notRetry == <<exportVars, crawlVars, tableVars, listVars, normVars>>
\* what the steps of the table's head leave alone
notTable == <<exportVars, crawlVars, retryVars, listVars, normVars>>
\* what the BlockConverter's steps leave alone
notList == <<exportVars, crawlVars, retryVars, tableVars, normVars>>
\* what the calls of _normalize_id leave alone
notNorm == <<exportVars, crawlVars, retryVars, tableVars, listVars>>

----------------------------------------------------------------------------
(* Bounds of the model *)

\* at most this many child / entry references in the Gateway's graph
MaxEdges == 2
\* the history counters saturate here
CountCap == 3
\* the level counter saturates here
MaxDepth == 6

----------------------------------------------------------------------------
(* Python values *)

None == {}
Some(x) == {x}
Value(opt) == CHOOSE x \in opt : TRUE

EmptyDict == [x \in {} |-> x]
\* d[k] = v
DictSet(d, k, v) == [x \in DOMAIN d \cup {k} |-> IF x = k THEN v ELSE d[x]]
\* d.pop(k), the dictionary left behind
DictPop(d, k) == [x \in DOMAIN d \ {k} |-> d[x]]

Bump(n) == IF n < CountCap THEN n + 1 ELSE n
BumpAll(f, S) == [x \in DOMAIN f |-> IF x \in S THEN Bump(f[x]) ELSE f[x]]

\* variant: the element is put in front
ListInsert0(list, x) == <<x>> \o list
\* list.insert(1, x), of a list that is not empty
ListInsert1(list, x) == <<list[1], x>> \o Tail(list)

----------------------------------------------------------------------------
(* The Gateway's graph *)

PageNodes == {"A", "B", "C"}
DbNodes == {"D"}
Ids == PageNodes \cup DbNodes

\* The references the Gateway may serve: a page lists child_page and
\* child_database blocks, a database has entry pages.  Among them are a page
\* that lists itself, pages that list each other, a child of two parents, a
\* requested root that is a child or an entry of another, and chains.
AllEdges ==
    {<<"A", "A">>, <<"A", "B">>, <<"A", "C">>, <<"A", "D">>, <<"B", "A">>, <<"B", "C">>,
     <<"C", "B">>, <<"D", "A">>, <<"D", "B">>, <<"D", "C">>}
Graphs == {E \in SUBSET AllEdges : Cardinality(E) <= MaxEdges}
Kids(n) == {m \in Ids : <<n, m>> \in edges}

\* titles, as the Gateway returns them
TitleOf(id) ==
    CASE id = "A" -> <<"T", "e", "a", "m">>
      [] id = "B" -> <<"P", "r", "o", "j", "e", "c", "t">>
      [] id = "C" -> <<"D", "r", "a", "f", "t">>
      [] id = "D" -> <<"T", "a", "s", "k", "s">>
Untitled == <<"U", "n", "t", "i", "t", "l", "e", "d">>

\* str.lower() over the alphabet of the titles
UpperCase == <<"A", "D", "P", "R", "T", "U">>
LowerCase == <<"a", "d", "p", "r", "t", "u">>
LowerChar(c) ==
    IF \E i \in 1..Len(UpperCase) : UpperCase[i] = c
    THEN LowerCase[CHOOSE i \in 1..Len(UpperCase) : UpperCase[i] = c]
    ELSE c
Lower(s) == [i \in 1..Len(s) |-> LowerChar(s[i])]

\* needle in hay
Contains(needle, hay) ==
    \E i \in 0..(Len(hay) - Len(needle)) : SubSeq(hay, i + 1, i + Len(needle)) = needle


----------------------------------------------------------------------------
(* The Retry Policy: the failures of the Gateway, the retry predicates, the *)
(* wait, the bodies of the wrapped operations and tenacity's decision       *)

\* the operations under @retry (exporter.py 225-391)
Ops ==
    {"_get_child_blocks", "_get_page_meta", "_get_database_meta",
     "_get_database_content", "_get_user"}
MetaOps == {"_get_page_meta", "_get_database_meta"}
\* the invocation under study, and the two _get_user invocations a metadata
\* fetch gathers (exporter.py 297-299, 344-347)
UserCalls == {"created_by", "last_edited_by"}
CallIds == {"main"} \cup UserCalls

\* stop_after_attempt(3)
max_attempt_number == 3

\* the value of the Retry-After header: absent, a number, or no number
RetryAfterValues == {None, Some(<<"2">>), Some(<<"s", "o", "o", "n">>)}

\* the errors of notion_client.errors (retry_utils.py 3); headers holds
\* headers.get("Retry-After"). APIResponseError derives HTTPResponseError.
APIResponseError(code, status, retry_after) ==
    [cls |-> "APIResponseError", code |-> code, status |-> status,
     headers |-> retry_after, last_attempt |-> None]
HTTPResponseError(status, retry_after) ==
    [cls |-> "HTTPResponseError", code |-> "notionhq_client_response_error",
     status |-> status, headers |-> retry_after, last_attempt |-> None]
RequestTimeoutError ==
    [cls |-> "RequestTimeoutError", code |-> "notionhq_client_request_timeout",
     status |-> 0, headers |-> None, last_attempt |-> None]
\* tenacity.RetryError(last_attempt), what @retry raises when it gives up
RetryError(exc) ==
    [cls |-> "RetryError", code |-> "", status |-> 0, headers |-> None,
     last_attempt |-> Some(exc)]
IsInstance(e, cls) ==
    \/ cls = "Exception"
    \/ e.cls = cls
    \/ cls = "HTTPResponseError" /\ e.cls = "APIResponseError"

\* what a call of the Gateway can raise
GatewayFailures ==
    {APIResponseError("rate_limited", 429, h) : h \in RetryAfterValues}
    \cup {APIResponseError("service_unavailable", 503, h) : h \in {None, Some(<<"1", "0">>)}}
    \cup {HTTPResponseError(504, h) : h \in {None, Some(<<"2">>)}}
    \cup {APIResponseError("database_connection_unavailable", 503, None),
          APIResponseError("gateway_timeout", 504, None),
          APIResponseError("internal_server_error", 500, None),
          APIResponseError("object_not_found", 404, None),
          APIResponseError("validation_error", 400, None),
          APIResponseError("unauthorized", 401, None),
          HTTPResponseError(502, None), RequestTimeoutError}

\* retry_utils.py 11-19
is_rate_limit_exception(exception) ==
    IsInstance(exception, "APIResponseError") /\ exception.code = "rate_limited"
\* retry_utils.py 22-41
is_unavailable_exception(exception) ==
    \/ /\ IsInstance(exception, "APIResponseError")
       /\ exception.code \in {"service_unavailable", "database_connection_unavailable",
                              "gateway_timeout", "internal_server_error"}
    \/ IsInstance(exception, "RequestTimeoutError")
    \/ IsInstance(exception, "HTTPResponseError") /\ exception.status = 504
\* variant: every error response of the Gateway is retried
retry_if_http_error(exception) == IsInstance(exception, "HTTPResponseError")
\* retry_if_exception(is_rate_limit_exception) | retry_if_exception(is_unavailable_exception)
retry(exception) ==
    is_rate_limit_exception(exception) \/ is_unavailable_exception(exception)

\* variant: one attempt more before giving up
stop_after_attempt_exceeded(attempt_number) == attempt_number > max_attempt_number
\* stop_after_attempt.__call__
stop_after_attempt(attempt_number) == attempt_number >= max_attempt_number

\* int(retry_after) of a header made of letters and digits
Digits == <<"0", "1", "2", "3", "4", "5", "6", "7", "8", "9">>
IsDigit(ch) == \E i \in 1..Len(Digits) : Digits[i] = ch
DigitValue(ch) == (CHOOSE i \in 1..Len(Digits) : Digits[i] = ch) - 1
RECURSIVE IntOf(_)
IntOf(s) ==
    IF s = <<>> THEN 0
    ELSE 10 * IntOf(SubSeq(s, 1, Len(s) - 1)) + DigitValue(s[Len(s)])
\* int raises TypeError for None and ValueError for text that is no number
IntRaises(retry_after) ==
    \/ retry_after = None
    \/ Value(retry_after) = <<>>
    \/ \E i \in 1..Len(Value(retry_after)) : ~IsDigit(Value(retry_after)[i])

\* wait_exponential() with tenacity's defaults: multiplier 1, base 2, min 0
wait_exponential(attempt_number) == 2 ^ (attempt_number - 1)
\* variant: the header is never looked at
wait_fallback_only(exc, attempt_number) == wait_exponential(attempt_number)
\* wait_for_retry_after_header.__call__ (retry_utils.py 55-66)
wait_for_retry_after_header(exc, attempt_number) ==
    IF IsInstance(exc, "APIResponseError") /\ ~IntRaises(exc.headers)
    THEN IntOf(Value(exc.headers))
    ELSE wait_exponential(attempt_number)

\* what a call of the Gateway answers: a response, or a failure
Answers == {None} \cup {Some(e) : e \in GatewayFailures}

\* the outcome of one attempt (tenacity's retry_state.outcome)
Returns(v) == [failed |-> FALSE, result |-> v, exception |-> None]
Raises(e) == [failed |-> TRUE, result |-> "", exception |-> Some(e)]

\* an invocation: tenacity's attempt_number, the attempts made (tries), the
\* Gateway's failure in the last attempt, the failure the last attempt ended
\* with, the last sleep, and how the invocation ended
NoCall ==
    [op |-> "", st |-> "idle", attempt_number |-> 0, tries |-> 0, result |-> "",
     raised |-> None, failure |-> None, last |-> None, slept |-> 0]
NewCall(op) == [NoCall EXCEPT !.op = op, !.st = "attempting", !.attempt_number = 1]

\* variant: the except clause of the database operations
GetChildBlocksBodyLenient(answer) ==
    IF answer = None THEN Returns("blocks")
    ELSE LET exc == Value(answer)
         IN IF IsInstance(exc, "APIResponseError")
               /\ exc.code \in {"object_not_found", "validation_error"}
            THEN Returns("[]")
            ELSE Raises(exc)
\* _get_child_blocks (exporter.py 277-285)
GetChildBlocksBody(answer) ==
    IF answer = None THEN Returns("blocks")
    ELSE LET exc == Value(answer)
         IN IF IsInstance(exc, "APIResponseError") /\ exc.code = "object_not_found"
            THEN Returns("[]")
            ELSE Raises(exc)

\* variant: only a database that is not found counts as inaccessible
DatabaseExceptNotFoundOnly(exc, placeholder) ==
    IF IsInstance(exc, "APIResponseError") /\ exc.code = "object_not_found"
    THEN Returns(placeholder)
    ELSE Raises(exc)
\* the except clause of _get_database_content and of _get_database_meta
\* (exporter.py 259-265, 358-371)
DatabaseExcept(exc, placeholder) ==
    IF IsInstance(exc, "APIResponseError")
       /\ exc.code \in {"object_not_found", "validation_error"}
    THEN Returns(placeholder)
    ELSE Raises(exc)

\* _get_database_content (exporter.py 233-267)
GetDatabaseContentBody(answer) ==
    IF answer = None THEN Returns("table") ELSE DatabaseExcept(Value(answer), "")

\* _get_user (exporter.py 383-391)
GetUserBody(answer) ==
    IF answer = None THEN Returns("name")
    ELSE LET e == Value(answer)
         IN IF IsInstance(e, "APIResponseError") /\ e.code = "rate_limited"
            THEN Raises(e)
            ELSE Returns("Unknown")

\* what raising exc inside the body of a metadata fetch comes to
\* (exporter.py 295-331, 341-373)
MetaRaise(op, exc) ==
    IF op = "_get_database_meta" THEN DatabaseExcept(exc, "Untitled") ELSE Raises(exc)

\* tenacity, retries exhausted: raise RetryError(fut) from fut.exception()
WhenStopped(exc) == RetryError(exc)

\* tenacity's decision after an attempt of invocation c ended as fut
Iter(c, fut) ==
    LET seen == [c EXCEPT !.last = fut.exception]
    IN IF ~(fut.failed /\ retry(Value(fut.exception)))
       THEN IF fut.failed
            THEN [seen EXCEPT !.st = "raised", !.raised = fut.exception]
            ELSE [seen EXCEPT !.st = "returned", !.result = fut.result]
       ELSE IF stop_after_attempt(c.attempt_number)
       THEN [seen EXCEPT !.st = "raised",
                         !.raised = Some(WhenStopped(Value(fut.exception)))]
       ELSE [seen EXCEPT !.st = "attempting",
                         !.attempt_number = @ + 1,
                         !.slept = wait_for_retry_after_header(Value(fut.exception),
                                                               c.attempt_number)]

\* the attempt begins and the Gateway answers
Begin(c, answer) == [c EXCEPT !.tries = @ + 1, !.failure = answer]

----------------------------------------------------------------------------
(* The Export Orchestrator: pure parts *)

\* variant: the titles are compared as they are written
TitleExcludedCaseSensitive(filter, title) ==
    /\ filter # None
    /\ Value(filter) # <<>>
    /\ Contains(Value(filter), title)

\* the title filter of one root (exporter.py 116-119, 141-144); a None or
\* empty filter is falsy
TitleExcluded(filter, title) ==
    /\ filter # None
    /\ Value(filter) # <<>>
    /\ Contains(Lower(Value(filter)), Lower(title))

\* variant: the call is refused as soon as one of the two arguments is omitted
NoRootsSpecifiedEither(page_arg, database_arg) == page_arg = None \/ database_arg = None

\* export_pages refuses a call without roots (exporter.py 59-60)
NoRootsSpecified(page_arg, database_arg) == page_arg = None /\ database_arg = None

\* an omitted argument becomes the empty set (exporter.py 62-67)
OrEmpty(arg) == IF arg = None THEN {} ELSE Value(arg)

\* variant: the exclusion set is not taken off the ids of a level
UnvisitedKeepsAll(ids, excl) == ids

\* page_ids -= ids_to_exclude (exporter.py 73-74, 96-97)
Unvisited(ids, excl) == ids \ excl

\* ids_to_exclude.update(page_ids); ids_to_exclude.update(database_ids)
\* (exporter.py 98-99)
Visit(excl, pids, dids) == excl \cup pids \cup dids

\* variant: the children are not registered
RegisterNothing(ppi, kids, parent) == ppi

\* parent_page_ids[child] = parent, for each discovered child
\* (exporter.py 121-124, 146-147)
Register(ppi, kids, parent) ==
    [c \in DOMAIN ppi \cup kids |-> IF c \in kids THEN parent ELSE ppi[c]]

\* variant: the continue comes after child_pages.update
SkippedRootChildrenKept(kids) == kids

\* what a root skipped by the title filter hands on to the next level: the
\* continue of exporter.py 120 / 145 comes before the registration of its
\* children and before child_pages.update
SkippedRootChildren(kids) == {}

\* variant: the parent's path is left out
ComposePathTitleOnly(parentPath, title) == title

Sep == <<" ", "/", " ">>
\* page_paths[parent_page_id] + " / " + page_meta["title"] (exporter.py 396)
ComposePath(parentPath, title) == parentPath \o Sep \o title

\* _get_page_front_matter (exporter.py 393-399): the lookup of line 396 raises
\* KeyError when the popped parent has no composed path
HasParent(page_meta, ppi) == page_meta.page_id \in DOMAIN ppi
FrontMatterRaises(page_meta, pp, ppi) ==
    HasParent(page_meta, ppi) /\ ppi[page_meta.page_id] \notin DOMAIN pp
CurrentPagePath(page_meta, pp, ppi) ==
    IF HasParent(page_meta, ppi)
    THEN ComposePath(pp[ppi[page_meta.page_id]], page_meta.title)
    ELSE page_meta.title
ParentsAfterFrontMatter(page_meta, ppi) ==
    IF HasParent(page_meta, ppi) THEN DictPop(ppi, page_meta.page_id) ELSE ppi

\* the document of a root: the front matter's title and path (the header that
\* extract_page_metadata prints) stand for the text
Document(page_meta, path, markdown) ==
    [title |-> page_meta.title, path |-> path, markdown |-> markdown]

\* _get_page_meta's result (exporter.py 319-331)
PageMeta(p) == [page_id |-> p, title |-> TitleOf(p)]
\* _get_database_meta's result: the database's own, or the placeholder of an
\* inaccessible database (exporter.py 349-369)
DatabaseMeta(d, found) == [page_id |-> d, title |-> IF found THEN TitleOf(d) ELSE Untitled]
\* _get_block_content's discovered ids of a root page; a page the Gateway
\* reports as not found has no blocks (exporter.py 282-283)
PageContent(p, found) ==
    [markdown |-> IF found THEN "blocks" ELSE "",
     child_page_ids |-> IF found THEN Kids(p) \cap PageNodes ELSE {},
     child_database_ids |-> IF found THEN Kids(p) \cap DbNodes ELSE {}]
\* _get_database_content's table and entry ids; an empty text and no ids for
\* an inaccessible database (exporter.py 256-267)
DatabaseContent(d, found) ==
    [markdown |-> IF found THEN "table" ELSE "",
     entry_ids |-> IF found THEN Kids(d) ELSE {}]

\* how the Gateway answers the last attempt of a retrieval of a database
DatabaseAnswers ==
    {None,
     Some(APIResponseError("object_not_found", 404, None)),
     Some(APIResponseError("validation_error", 400, None)),
     Some(APIResponseError("unauthorized", 401, None))}
\* the database is not available via the API
Inaccessible(answer) ==
    answer # None /\ Value(answer).code \in {"object_not_found", "validation_error"}
\* _get_database_meta as far as the retrieval decides it (exporter.py 341-373)
GetDatabaseMetaBody(answer) ==
    IF answer = None THEN Returns("meta") ELSE MetaRaise("_get_database_meta", Value(answer))

\* variants: the exception is caught and the mapping built so far is returned
MetaFailureSwallowed == "done"
ContentFailureSwallowed == "done"

\* an exception of a metadata task leaves asyncio.gather, _async_export_pages
\* and export_pages: nothing catches it (exporter.py 109, 137, 75-77)
MetaFailure == "raised"
\* likewise for a content task (exporter.py 110, 136)
ContentFailure == "raised"

\* variant: the recursion does not look at export_child_pages
RecursesWhenChildren(flag, cp, cd) == cp # {} \/ cd # {}
\* variant: the recursion does not look at what the level discovered
RecursesAlways(flag, cp, cd) == flag

\* if self.export_child_pages and (child_pages or child_databases)
\* (exporter.py 152)
Recurses(flag, cp, cd) == flag /\ (cp # {} \/ cd # {})

----------------------------------------------------------------------------
(* The Export Orchestrator: control *)

Terminal == {"input_error", "done", "raised"}

config == <<edges, export_child_pages, exclude_title_containing, req>>
control == <<pc, pending, metaCalls, contentCalls>>
results == <<page_details_results, page_content_results,
             database_details_results, database_content_results>>
level == <<depth, page_ids, database_ids, ids_to_exclude, child_pages, child_databases>>
paths == <<parent_page_ids, page_paths, extracted_pages, regBy>>

\* the run moves to position ph; a gather starts the tasks of the roots S
Goto(ph, S) ==
    /\ pc' = ph
    /\ pending' = S
    /\ metaCalls' = IF ph \in {"page_meta", "db_meta"} THEN BumpAll(metaCalls, S) ELSE metaCalls
    /\ contentCalls' = IF ph \in {"page_content", "db_content"}
                       THEN BumpAll(contentCalls, S) ELSE contentCalls

\* if database_ids: ... (exporter.py 131-136), else line 152
AfterPages(dids) == IF dids # {} THEN Goto("db_content", dids) ELSE Goto("recurse", {})

\* _async_export_pages up to its first await (exporter.py 89-110)
EnterLevel(pids_in, dids_in, excl_in) ==
    LET pids == Unvisited(pids_in, excl_in)
        dids == Unvisited(dids_in, excl_in)
    IN /\ page_ids' = pids
       /\ database_ids' = dids
       /\ ids_to_exclude' = Visit(excl_in, pids, dids)
       /\ child_pages' = {}
       /\ child_databases' = {}
       /\ page_details_results' = EmptyDict
       /\ page_content_results' = EmptyDict
       /\ database_details_results' = EmptyDict
       /\ database_content_results' = EmptyDict
       /\ todo' = {}
       /\ IF pids # {} THEN Goto("page_meta", pids) ELSE AfterPages(dids)

\* no crawl and no wrapped call is under way
IdleCrawl ==
    /\ par = <<>> /\ btype = <<>> /\ task = <<>>
    /\ crawl_child_page_ids = {} /\ finished = <<>>
IdleRetry == call = <<>>
IdleTable ==
    /\ fetched = <<>> /\ table_blocks = <<>> /\ markdown_rows = <<>> /\ table_pc = "idle"
IdleList == numbered_list_counters = <<>> /\ numbered_lines = <<>> /\ batch = 0
IdleNorm == notion_id = <<>> /\ outcomes = <<>>
\* no export run is under way
IdleExport ==
    /\ edges = {} /\ export_child_pages = FALSE /\ exclude_title_containing = None
    /\ req = [page_ids |-> None, database_ids |-> None, ids_to_exclude |-> None]
    /\ pc = "idle" /\ depth = 0
    /\ page_ids = {} /\ database_ids = {} /\ ids_to_exclude = {}
    /\ parent_page_ids = EmptyDict /\ page_paths = EmptyDict /\ extracted_pages = EmptyDict
    /\ child_pages = {} /\ child_databases = {} /\ pending = {}
    /\ page_details_results = EmptyDict /\ page_content_results = EmptyDict
    /\ database_details_results = EmptyDict /\ database_content_results = EmptyDict
    /\ todo = {}
    /\ metaCalls = [i \in Ids |-> 0] /\ contentCalls = [i \in Ids |-> 0]
    /\ failed = {} /\ dropped = {}
    /\ inaccessible = [content |-> {}, meta |-> {}]
    /\ discovered = [i \in Ids |-> {}] /\ regBy = [i \in Ids |-> {}]

InitExport ==
    /\ edges \in Graphs
    /\ export_child_pages \in BOOLEAN
    /\ exclude_title_containing \in {None, Some(<<"d", "R", "A">>)}
    /\ req \in [page_ids : {None, Some({}), Some({"A"}), Some({"A", "B"})},
                database_ids : {None} \cup {Some(S) : S \in SUBSET DbNodes},
                ids_to_exclude : {None, Some({"B"})}]
    /\ pc = "start"
    /\ depth = 0
    /\ page_ids = {} /\ database_ids = {} /\ ids_to_exclude = {}
    /\ parent_page_ids = EmptyDict
    /\ page_paths = EmptyDict
    /\ extracted_pages = EmptyDict
    /\ child_pages = {} /\ child_databases = {}
    /\ pending = {}
    /\ page_details_results = EmptyDict /\ page_content_results = EmptyDict
    /\ database_details_results = EmptyDict /\ database_content_results = EmptyDict
    /\ todo = {}
    /\ metaCalls = [i \in Ids |-> 0]
    /\ contentCalls = [i \in Ids |-> 0]
    /\ failed = {} /\ dropped = {}
    /\ inaccessible = [content |-> {}, meta |-> {}]
    /\ discovered = [i \in Ids |-> {}]
    /\ regBy = [i \in Ids |-> {}]

\* export_pages without roots (exporter.py 59-60)
ExportPagesInputError ==
    /\ pc = "start"
    /\ NoRootsSpecified(req.page_ids, req.database_ids)
    /\ pc' = "input_error"
    /\ UNCHANGED <<notExport, config, depth, page_ids, database_ids, ids_to_exclude, paths,
                   child_pages, child_databases, pending, results, todo,
                   metaCalls, contentCalls, failed, inaccessible, dropped, discovered>>

\* export_pages (exporter.py 62-77) into the first level.  The ids of this
\* model are canonical ids, which _normalize_id hands back as they are.
ExportPages ==
    /\ pc = "start"
    /\ ~NoRootsSpecified(req.page_ids, req.database_ids)
    /\ LET excl == OrEmpty(req.ids_to_exclude)
       IN EnterLevel(Unvisited(OrEmpty(req.page_ids), excl),
                     Unvisited(OrEmpty(req.database_ids), excl), excl)
    /\ UNCHANGED <<notExport, config, depth, paths, failed, inaccessible, dropped, discovered>>

\* one task of gather(*page_meta_tasks) is done (exporter.py 107, 109)
PageMetaReturn(p) ==
    /\ pc = "page_meta" /\ p \in pending
    /\ page_details_results' = DictSet(page_details_results, p, PageMeta(p))
    /\ IF pending = {p}
       THEN Goto("page_content", page_ids)
       ELSE /\ pending' = pending \ {p}
            /\ UNCHANGED <<pc, metaCalls, contentCalls>>
    /\ UNCHANGED <<notExport, config, level, paths, page_content_results, database_details_results,
                   database_content_results, todo, failed, inaccessible, dropped, discovered>>

\* one of them raises: pages.retrieve failed for good
PageMetaRaise(p) ==
    /\ pc = "page_meta" /\ p \in pending
    /\ failed' = failed \cup {p}
    /\ UNCHANGED inaccessible
    /\ pc' = MetaFailure
    /\ UNCHANGED <<notExport, config, level, paths, pending, results, todo, metaCalls, contentCalls,
                   dropped, discovered>>

\* one task of gather(*page_content_tasks) is done (exporter.py 108, 110); the
\* last one lets the run go on to line 111 and the loop
PageContentReturn(p, found) ==
    /\ pc = "page_content" /\ p \in pending
    /\ page_content_results' = DictSet(page_content_results, p, PageContent(p, found))
    /\ discovered' = [discovered EXCEPT ![p] = IF found THEN Kids(p) ELSE {}]
    /\ IF pending = {p}
       THEN /\ Goto("page_loop", {})
            /\ ids_to_exclude' = ids_to_exclude \cup DOMAIN page_details_results
            /\ todo' = page_ids
       ELSE /\ pending' = pending \ {p}
            /\ UNCHANGED <<pc, metaCalls, contentCalls, ids_to_exclude, todo>>
    /\ UNCHANGED <<notExport, config, depth, page_ids, database_ids, child_pages, child_databases,
                   paths, page_details_results, database_details_results,
                   database_content_results, failed, inaccessible, dropped>>

PageContentRaise(p) ==
    /\ pc = "page_content" /\ p \in pending
    /\ failed' = failed \cup {p}
    /\ UNCHANGED inaccessible
    /\ pc' = ContentFailure
    /\ UNCHANGED <<notExport, config, level, paths, pending, results, todo, metaCalls, contentCalls,
                   dropped, discovered>>


\* the body of the for loop for a root that passes the title filter
\* (exporter.py 121-129, 146-150): register the children, compose the front
\* matter, store the document, hand the children to the next level
KeepRoot(meta, markdown, kid_pages, kid_databases, after) ==
    LET kids == kid_pages \cup kid_databases
        registered == Register(parent_page_ids, kids, meta.page_id)
    IN /\ parent_page_ids' = ParentsAfterFrontMatter(meta, registered)
       /\ regBy' = [c \in Ids |-> IF c \in kids /\ c \notin DOMAIN page_paths
                                  THEN regBy[c] \cup {meta.page_id} ELSE regBy[c]]
       /\ IF FrontMatterRaises(meta, page_paths, registered)
          THEN /\ pc' = "raised"
               /\ UNCHANGED <<page_paths, extracted_pages, child_pages, child_databases,
                              todo, pending, metaCalls, contentCalls>>
          ELSE /\ page_paths' = DictSet(page_paths, meta.page_id,
                                        CurrentPagePath(meta, page_paths, registered))
               /\ extracted_pages' =
                      DictSet(extracted_pages, meta.page_id,
                              Document(meta, CurrentPagePath(meta, page_paths, registered),
                                       markdown))
               /\ child_pages' = child_pages \cup kid_pages
               /\ child_databases' = child_databases \cup kid_databases
               /\ todo' = todo \ {meta.page_id}
               /\ IF todo = {meta.page_id} THEN after
                  ELSE UNCHANGED <<pc, pending, metaCalls, contentCalls>>

\* the body of the for loop for a root the title filter skips
\* (exporter.py 116-120, 141-145)
SkipRoot(id, kid_pages, kid_databases, after) ==
    /\ dropped' = dropped \cup {id}
    /\ child_pages' = child_pages \cup SkippedRootChildren(kid_pages)
    /\ child_databases' = child_databases \cup SkippedRootChildren(kid_databases)
    /\ todo' = todo \ {id}
    /\ IF todo = {id} THEN after ELSE UNCHANGED <<pc, pending, metaCalls, contentCalls>>
    /\ UNCHANGED <<parent_page_ids, page_paths, extracted_pages, regBy>>

\* one iteration of the loop over the pages (exporter.py 113-129); a set is
\* iterated in an order the program does not choose
PageLoopStep(p) ==
    /\ pc = "page_loop" /\ p \in todo
    /\ LET page_details == page_details_results[p]
           content == page_content_results[p]
       IN IF TitleExcluded(exclude_title_containing, page_details.title)
          THEN SkipRoot(p, content.child_page_ids, content.child_database_ids,
                        AfterPages(database_ids))
          ELSE /\ KeepRoot(page_details, content.markdown, content.child_page_ids,
                           content.child_database_ids, AfterPages(database_ids))
               /\ UNCHANGED dropped
    /\ UNCHANGED <<notExport, config, depth, page_ids, database_ids, ids_to_exclude, results,
                   failed, inaccessible, discovered>>

\* one task of gather(*database_content_tasks) is done (exporter.py 135-136)
DbContentReturn(d, answer) ==
    /\ pc = "db_content" /\ d \in pending
    /\ answer = None => d \in DbNodes
    /\ ~GetDatabaseContentBody(answer).failed
    /\ database_content_results' =
           DictSet(database_content_results, d, DatabaseContent(d, answer = None))
    /\ discovered' = [discovered EXCEPT ![d] = DatabaseContent(d, answer = None).entry_ids]
    /\ inaccessible' = IF Inaccessible(answer)
                       THEN [inaccessible EXCEPT !.content = @ \cup {d}]
                       ELSE inaccessible
    /\ IF pending = {d}
       THEN Goto("db_meta", database_ids)
       ELSE /\ pending' = pending \ {d}
            /\ UNCHANGED <<pc, metaCalls, contentCalls>>
    /\ UNCHANGED <<notExport, config, level, paths, page_details_results, page_content_results,
                   database_details_results, todo, failed, dropped>>

DbContentRaise(d, answer) ==
    /\ pc = "db_content" /\ d \in pending
    /\ GetDatabaseContentBody(answer).failed
    /\ failed' = failed \cup {d}
    /\ inaccessible' = IF Inaccessible(answer)
                       THEN [inaccessible EXCEPT !.content = @ \cup {d}]
                       ELSE inaccessible
    /\ pc' = ContentFailure
    /\ UNCHANGED <<notExport, config, level, paths, pending, results, todo, metaCalls, contentCalls,
                   dropped, discovered>>

\* one task of gather(*database_meta_tasks) is done (exporter.py 134, 137); the
\* last one lets the run go on to line 138 and the loop
DbMetaReturn(d, answer) ==
    /\ pc = "db_meta" /\ d \in pending
    /\ answer = None => d \in DbNodes
    /\ ~GetDatabaseMetaBody(answer).failed
    /\ database_details_results' =
           DictSet(database_details_results, d, DatabaseMeta(d, answer = None))
    /\ inaccessible' = IF Inaccessible(answer)
                       THEN [inaccessible EXCEPT !.meta = @ \cup {d}]
                       ELSE inaccessible
    /\ IF pending = {d}
       THEN /\ Goto("db_loop", {})
            /\ ids_to_exclude' = ids_to_exclude \cup DOMAIN database_details_results'
            /\ todo' = database_ids
       ELSE /\ pending' = pending \ {d}
            /\ UNCHANGED <<pc, metaCalls, contentCalls, ids_to_exclude, todo>>
    /\ UNCHANGED <<notExport, config, depth, page_ids, database_ids, child_pages, child_databases,
                   paths, page_details_results, page_content_results,
                   database_content_results, failed, dropped, discovered>>

DbMetaRaise(d, answer) ==
    /\ pc = "db_meta" /\ d \in pending
    /\ GetDatabaseMetaBody(answer).failed
    /\ failed' = failed \cup {d}
    /\ inaccessible' = IF Inaccessible(answer)
                       THEN [inaccessible EXCEPT !.meta = @ \cup {d}]
                       ELSE inaccessible
    /\ pc' = MetaFailure
    /\ UNCHANGED <<notExport, config, level, paths, pending, results, todo, metaCalls, contentCalls,
                   dropped, discovered>>

\* one iteration of the loop over the databases (exporter.py 140-150)
DbLoopStep(d) ==
    /\ pc = "db_loop" /\ d \in todo
    /\ LET db_details == database_details_results[d]
           markdown == database_content_results[d].markdown
           entry_ids == database_content_results[d].entry_ids
       IN IF TitleExcluded(exclude_title_containing, db_details.title)
          THEN SkipRoot(d, entry_ids, {}, Goto("recurse", {}))
          ELSE /\ KeepRoot(db_details, markdown, entry_ids, {}, Goto("recurse", {}))
               /\ UNCHANGED dropped
    /\ UNCHANGED <<notExport, config, depth, page_ids, database_ids, ids_to_exclude, results,
                   failed, inaccessible, discovered>>

\* the recursive call for the discovered children (exporter.py 152-159), up
\* to the callee's first await.  extracted_pages gathers the levels: each
\* level's mapping is merged into its caller's on the way back (line 160).
Recurse ==
    /\ pc = "recurse"
    /\ Recurses(export_child_pages, child_pages, child_databases)
    /\ depth' = IF depth < MaxDepth THEN depth + 1 ELSE depth
    /\ EnterLevel(child_pages, child_databases, ids_to_exclude)
    /\ UNCHANGED <<notExport, config, paths, failed, inaccessible, dropped, discovered>>

\* no recursion: every level returns, export_pages returns the mapping
\* (exporter.py 162, 79)
Return ==
    /\ pc = "recurse"
    /\ ~Recurses(export_child_pages, child_pages, child_databases)
    /\ pc' = "done"
    /\ UNCHANGED <<notExport, config, level, paths, pending, results, todo, metaCalls, contentCalls,
                   failed, inaccessible, dropped, discovered>>

NextExport ==
    \/ ExportPagesInputError
    \/ ExportPages
    \/ \E p \in PageNodes : PageMetaReturn(p)
    \/ \E p \in PageNodes : PageMetaRaise(p)
    \/ \E p \in PageNodes, found \in BOOLEAN : PageContentReturn(p, found)
    \/ \E p \in PageNodes : PageContentRaise(p)
    \/ \E p \in PageNodes : PageLoopStep(p)
    \/ \E d \in Ids, answer \in DatabaseAnswers : DbContentReturn(d, answer)
    \/ \E d \in Ids, answer \in DatabaseAnswers : DbContentRaise(d, answer)
    \/ \E d \in Ids, answer \in DatabaseAnswers : DbMetaReturn(d, answer)
    \/ \E d \in Ids, answer \in DatabaseAnswers : DbMetaRaise(d, answer)
    \/ \E d \in Ids : DbLoopStep(d)
    \/ Recurse
    \/ Return

Init == InitExport /\ IdleCrawl /\ IdleRetry /\ IdleTable /\ IdleList /\ IdleNorm
Spec == Init /\ [][NextExport]_vars

\* the event loop runs whatever is ready: a Gateway call that returns, the
\* next statement of the run
SpecLive == Spec /\ WF_vars(NextExport)

\* the mapping the caller of export_pages holds
ResultKeys == IF pc = "done" THEN DOMAIN extracted_pages ELSE {}


----------------------------------------------------------------------------
(* Claims about the Export Orchestrator *)

\* the roots the caller asks for, less the ids the caller excludes
RequestedRoots ==
    (OrEmpty(req.page_ids) \cup OrEmpty(req.database_ids)) \ OrEmpty(req.ids_to_exclude)
\* a root fetch of id i was started
Fetched(i) == metaCalls[i] >= 1 \/ contentCalls[i] >= 1
\* both id collections of the call are empty, omitted or not
RequestEmpty == OrEmpty(req.page_ids) = {} /\ OrEmpty(req.database_ids) = {}

\* C2: in one run no id is fetched as a root more than once, neither its
\* metadata nor its content, over all levels; a requested root that another
\* requested root lists as a child is fetched exactly once and is a key of the
\* returned mapping (unless the title filter drops it).
C2_FetchedOnce ==
    /\ \A i \in Ids : metaCalls[i] <= 1 /\ contentCalls[i] <= 1
    /\ pc = "done" =>
         \A b \in RequestedRoots :
            (\E a \in RequestedRoots \ {b} : b \in discovered[a]) =>
                /\ metaCalls[b] = 1
                /\ contentCalls[b] = 1
                /\ b \in ResultKeys \/ b \in dropped

C2_Witness ==
    /\ pc = "done" /\ export_child_pages /\ depth >= 1
    /\ \E b \in RequestedRoots : \E a \in RequestedRoots \ {b} :
          b \in discovered[a] /\ b \in ResultKeys /\ metaCalls[b] = 1

C4_PathComposition ==
    \A x \in DOMAIN extracted_pages :
        LET doc == extracted_pages[x]
        IN /\ page_paths[x] = doc.path
           /\ regBy[x] = {} => doc.path = doc.title
           /\ regBy[x] # {} =>
                \E a \in regBy[x] :
                    /\ x \in discovered[a]
                    /\ a \in DOMAIN page_paths
                    /\ doc.path = page_paths[a] \o <<" ", "/", " ">> \o doc.title

C4_Witness ==
    /\ pc = "done" /\ export_child_pages
    /\ "A" \in RequestedRoots /\ "B" \notin RequestedRoots
    /\ "B" \in DOMAIN extracted_pages /\ regBy["B"] = {"A"}
    /\ extracted_pages["A"].path = <<"T", "e", "a", "m">>
    /\ extracted_pages["B"].path =
           <<"T", "e", "a", "m", " ", "/", " ", "P", "r", "o", "j", "e", "c", "t">>

\* C5 as stated: the children of a root that the title filter drops are
\* still exported at the next level.
C5_ExcludedParentKeepsChildren ==
    (pc = "done" /\ export_child_pages) =>
        \A p \in dropped : \A c \in discovered[p] :
            c \notin OrEmpty(req.ids_to_exclude) => Fetched(c)

\* C5 amended: a root that the title filter drops is not a key of the
\* mapping, is nobody's registered parent, and hands no child to the next
\* level: every id fetched below the requested roots was discovered by a root
\* that is in the mapping.
C5_ExcludedParentDropsChildren ==
    /\ dropped \cap DOMAIN extracted_pages = {}
    /\ \A c \in DOMAIN parent_page_ids : parent_page_ids[c] \notin dropped
    /\ \A c \in Ids :
          Fetched(c) =>
             c \in RequestedRoots \/ \E a \in DOMAIN extracted_pages : c \in discovered[a]

C5_Witness ==
    /\ pc = "done" /\ export_child_pages
    /\ \E p \in dropped : \E c \in discovered[p] :
          c \notin OrEmpty(req.ids_to_exclude) /\ ~Fetched(c)

\* C6: export_pages returns a mapping only when nothing failed, and the
\* mapping is then complete: every root that was fetched at any level is a key
\* unless the title filter dropped it, and with export_child_pages every child
\* discovered by a key is a key too unless dropped or excluded by the caller.
C6_AllOrNothing ==
    pc = "done" =>
        /\ failed = {}
        /\ \A r \in Ids : Fetched(r) => r \in ResultKeys \/ r \in dropped
        /\ export_child_pages =>
              \A a \in ResultKeys : \A c \in discovered[a] :
                  c \in ResultKeys \/ c \in dropped \/ c \in OrEmpty(req.ids_to_exclude)

C6_Witness ==
    /\ pc = "done" /\ depth >= 1 /\ Cardinality(ResultKeys) >= 2
    /\ \E a \in ResultKeys : discovered[a] \cap ResultKeys # {}

\* C7 as stated: when the fetch of one root fails for good, the other roots
\* of its batch are still exported.
C7_OtherRootsUnaffected ==
    (pc \in Terminal /\ failed # {}) =>
        \A r \in (page_ids \cup database_ids) \ failed : r \in ResultKeys

\* C7 amended: the first fetch of a root that fails for good ends the whole
\* run with that exception: no mapping is returned, for no root.
C7_FailureAbortsRun ==
    failed # {} => pc = "raised" /\ ResultKeys = {} /\ Cardinality(failed) = 1

C7_Witness ==
    /\ failed # {}
    /\ \E r \in DOMAIN page_content_results : r \notin failed

\* C8 as stated: a call whose page ids and database ids are both empty,
\* omitted or passed as empty collections, fails with the input error.
C8_EmptyRequestFails == (RequestEmpty /\ pc # "start") => pc = "input_error"

\* C8 amended: the call fails with the input error exactly when both
\* arguments are omitted; with both collections empty no Gateway call is made
\* either, and a call that was given an empty collection returns the empty
\* mapping.
C8_OmittedRequestFails ==
    /\ pc # "start" =>
          (pc = "input_error" <=> (req.page_ids = None /\ req.database_ids = None))
    /\ RequestEmpty =>
          /\ \A i \in Ids : ~Fetched(i)
          /\ extracted_pages = EmptyDict
          /\ pc # "raised"

C8_Witness ==
    /\ pc = "done"
    /\ req.page_ids = Some({}) /\ req.database_ids = Some({})


\* C14: a root database whose retrieval the Gateway fails as not found or
\* as invalid does not fail the run: the fetch returns, its content an empty
\* text with no entry ids, its metadata the placeholder titled "Untitled", and the
\* mapping the run returns has an entry keyed by its id with that title and
\* that empty body, unless the title filter dropped it, as it may any root.
C14_InaccessibleDatabaseIsPlaceholder ==
    \A d \in Ids :
        /\ d \in inaccessible.content =>
              /\ discovered[d] = {}
              /\ d \in failed => d \in DOMAIN database_content_results
              /\ d \in DOMAIN database_content_results =>
                    database_content_results[d] = [markdown |-> "", entry_ids |-> {}]
              /\ d \in DOMAIN extracted_pages => extracted_pages[d].markdown = ""
        /\ d \in inaccessible.meta =>
              /\ d \notin failed
              /\ d \in DOMAIN database_details_results =>
                    database_details_results[d] = [page_id |-> d, title |-> Untitled]
              /\ d \in DOMAIN extracted_pages => extracted_pages[d].title = Untitled
        /\ (/\ pc = "done"
            /\ d \in inaccessible.content \cup inaccessible.meta
            /\ d \notin dropped) =>
              d \in ResultKeys

\* the run returned an entry for a database that has entries and that the
\* Gateway failed as inaccessible
C14_Witness ==
    /\ pc = "done"
    /\ "D" \in inaccessible.content /\ "D" \in inaccessible.meta
    /\ Kids("D") # {}
    /\ "D" \in ResultKeys
    /\ extracted_pages["D"].title = Untitled
    /\ extracted_pages["D"].markdown = ""
    /\ DOMAIN extracted_pages = {"D"}


\* C15: an id the caller excluded is never fetched as a root and is never a
\* key of the mapping, at whatever level it turns up, as a requested root or
\* as a discovered child or database entry; and no entry of the mapping has
\* a title that contains the exclude_title_containing string, letter case
\* aside.
C15_ExcludedNeverExported ==
    /\ \A i \in OrEmpty(req.ids_to_exclude) :
          /\ ~Fetched(i)
          /\ i \notin DOMAIN extracted_pages
          /\ i \notin DOMAIN page_details_results \cup DOMAIN database_details_results
    /\ \A i \in DOMAIN extracted_pages :
          exclude_title_containing # None =>
              ~Contains(Lower(Value(exclude_title_containing)),
                        Lower(extracted_pages[i].title))

\* the run returned without the excluded child B of A and without C, whose
\* title Draft contains dRA
C15_Witness ==
    /\ pc = "done" /\ export_child_pages
    /\ req.ids_to_exclude = Some({"B"})
    /\ "B" \in discovered["A"] \cup discovered["D"]
    /\ "C" \in dropped
    /\ ResultKeys # {}


\* C16: with export_child_pages disabled the run has one level: it never
\* enters _async_export_pages a second time, every id fetched as a root and
\* every key of the mapping is a requested root, and no discovered child
\* page, child database or database entry is fetched.
C16_OneLevelWithoutChildPages ==
    ~export_child_pages =>
        /\ depth = 0
        /\ DOMAIN extracted_pages \subseteq RequestedRoots
        /\ \A i \in Ids : Fetched(i) => i \in RequestedRoots
        /\ \A r \in Ids : \A c \in discovered[r] \ RequestedRoots : ~Fetched(c)

\* the run returned the root A alone although A has children
C16_Witness ==
    /\ pc = "done" /\ ~export_child_pages
    /\ ResultKeys = {"A"}
    /\ discovered["A"] \ RequestedRoots # {}
    /\ child_pages \cup child_databases # {}


\* C22: the metadata fetch and the content fetch of a root are in flight
\* together, neither waiting for the other to complete: whenever one of the
\* two has been started for a root, the other has been started as well.
C22_MetaAndContentInParallel ==
    \A i \in Ids : metaCalls[i] >= 1 <=> contentCalls[i] >= 1

\* the run ended in the KeyError of page_paths[parent_page_id]: it raised
\* although no fetch failed
MissingParentLookup == pc = "raised" /\ failed = {}

\* C24: whatever the graph, a page that lists itself included, the parent id
\* that _get_page_front_matter pops is a key of page_paths, so that no run
\* ends in a missing parent lookup.
C24_ParentComposedFirst == ~MissingParentLookup

\* C25: a pairing in parent_page_ids is gone once its child's front matter has
\* been composed: no id that has a composed path is a key of parent_page_ids,
\* and when a run with export_child_pages returns, no key of the mapping is a
\* key of parent_page_ids.
C25_PairingConsumedOnce ==
    /\ DOMAIN page_paths \cap DOMAIN parent_page_ids = {}
    /\ (pc = "done" /\ export_child_pages) =>
          DOMAIN extracted_pages \cap DOMAIN parent_page_ids = {}

\* the databases whose document is in the mapping and whose query answered
KeptDatabases == (DbNodes \cap DOMAIN extracted_pages) \ inaccessible.content

IdOrder == <<"A", "B", "C", "D">>
InOrder(S) == SelectSeq(IdOrder, LAMBDA i : i \in S)

\* the body of the loops for one root (exporter.py 116-129, 141-150)
LoopBody(st, meta, markdown, kid_pages, kid_databases) ==
    IF st.raised THEN st
    ELSE IF TitleExcluded(exclude_title_containing, meta.title)
    THEN [st EXCEPT !.cp = @ \cup SkippedRootChildren(kid_pages),
                    !.cd = @ \cup SkippedRootChildren(kid_databases)]
    ELSE LET registered == Register(st.ppi, kid_pages \cup kid_databases, meta.page_id)
             path == CurrentPagePath(meta, st.pp, registered)
         IN IF FrontMatterRaises(meta, st.pp, registered)
            THEN [st EXCEPT !.raised = TRUE]
            ELSE [st EXCEPT !.ppi = ParentsAfterFrontMatter(meta, registered),
                            !.pp = DictSet(st.pp, meta.page_id, path),
                            !.ext = DictSet(st.ext, meta.page_id,
                                            Document(meta, path, markdown)),
                            !.cp = @ \cup kid_pages,
                            !.cd = @ \cup kid_databases]

RECURSIVE PagesInOrder(_, _)
PagesInOrder(st, q) ==
    IF q = <<>> THEN st
    ELSE LET content == PageContent(q[1], TRUE)
         IN PagesInOrder(LoopBody(st, PageMeta(q[1]), content.markdown,
                                  content.child_page_ids, content.child_database_ids),
                         Tail(q))

RECURSIVE DatabasesInOrder(_, _)
DatabasesInOrder(st, q) ==
    IF q = <<>> THEN st
    ELSE LET content == DatabaseContent(q[1], TRUE)
         IN DatabasesInOrder(LoopBody(st, DatabaseMeta(q[1], TRUE), content.markdown,
                                      content.entry_ids, {}),
                             Tail(q))

\* one level and the levels below it (exporter.py 96-162)
RECURSIVE LevelsInOrder(_, _, _, _)
LevelsInOrder(pids_in, dids_in, excl_in, st_in) ==
    LET pids == Unvisited(pids_in, excl_in)
        dids == Unvisited(dids_in, excl_in)
        st == DatabasesInOrder(PagesInOrder([st_in EXCEPT !.cp = {}, !.cd = {}],
                                            InOrder(pids)),
                               InOrder(dids))
    IN IF ~st.raised /\ Recurses(export_child_pages, st.cp, st.cd)
       THEN LevelsInOrder(st.cp, st.cd, Visit(excl_in, pids, dids), st)
       ELSE st

RunInOrder ==
    LET excl == OrEmpty(req.ids_to_exclude)
    IN LevelsInOrder(Unvisited(OrEmpty(req.page_ids), excl),
                     Unvisited(OrEmpty(req.database_ids), excl), excl,
                     [ppi |-> EmptyDict, pp |-> EmptyDict, ext |-> EmptyDict,
                      cp |-> {}, cd |-> {}, raised |-> FALSE])

\* the keys of a mapping with the composed path of each document
PathsOf(mapping) == [x \in DOMAIN mapping |-> mapping[x].path]
\* the Gateway answered every call of the run with the object asked for
AllAnswered ==
    /\ inaccessible = [content |-> {}, meta |-> {}]
    /\ \A i \in Ids : contentCalls[i] >= 1 => discovered[i] = Kids(i)

\* C29: the mapping a run returns, its keys and the path of each document, is
\* the same whatever the order in which the loops iterate the sets of a
\* level: it is the mapping of the run that iterates them in one fixed order.
C29_ResultIndependentOfOrder ==
    (pc = "done" /\ AllAnswered) =>
        ~RunInOrder.raised /\ PathsOf(extracted_pages) = PathsOf(RunInOrder.ext)

----------------------------------------------------------------------------
(* The Retry Policy: one invocation of a retry-wrapped Gateway operation,   *)
(* with the user lookups a metadata fetch invokes                           *)

InitRetry ==
    call \in {[c \in CallIds |-> IF c = "main" THEN NewCall(op) ELSE NoCall] : op \in Ops}

\* an attempt of _get_child_blocks
GetChildBlocks(answer) ==
    /\ call["main"].op = "_get_child_blocks" /\ call["main"].st = "attempting"
    /\ call' = [call EXCEPT !["main"] = Iter(Begin(@, answer), GetChildBlocksBody(answer))]
    /\ UNCHANGED notRetry

\* an attempt of _get_database_content
GetDatabaseContent(answer) ==
    /\ call["main"].op = "_get_database_content" /\ call["main"].st = "attempting"
    /\ call' = [call EXCEPT !["main"] = Iter(Begin(@, answer), GetDatabaseContentBody(answer))]
    /\ UNCHANGED notRetry

\* an attempt of a metadata fetch, up to the gather of the two user lookups:
\* pages.retrieve or databases.retrieve answers (exporter.py 296-299, 343-347)
GetMeta(answer) ==
    /\ call["main"].op \in MetaOps /\ call["main"].st = "attempting"
    /\ IF answer = None
       THEN call' = [c \in CallIds |->
                        IF c = "main" THEN [Begin(call[c], answer) EXCEPT !.st = "users"]
                        ELSE NewCall("_get_user")]
       ELSE call' = [call EXCEPT !["main"] =
                        Iter(Begin(@, answer), MetaRaise(@.op, Value(answer)))]
    /\ UNCHANGED notRetry

\* an attempt of _get_user, invoked by the caller or by a metadata fetch
GetUser(c, answer) ==
    /\ call[c].op = "_get_user" /\ call[c].st = "attempting"
    /\ call' = [call EXCEPT ![c] = Iter(Begin(@, answer), GetUserBody(answer))]
    /\ UNCHANGED notRetry

\* both user lookups returned: the metadata fetch returns its dictionary
GatherUsers ==
    /\ call["main"].st = "users"
    /\ \A u \in UserCalls : call[u].st = "returned"
    /\ call' = [call EXCEPT !["main"] = Iter(@, Returns("meta"))]
    /\ UNCHANGED notRetry

\* a user lookup raised: gather raises it inside the metadata fetch
GatherUsersRaise(u) ==
    /\ call["main"].st = "users"
    /\ call[u].st = "raised"
    /\ call' = [call EXCEPT !["main"] = Iter(@, MetaRaise(@.op, Value(call[u].raised)))]
    /\ UNCHANGED notRetry

NextRetry ==
    \/ \E answer \in Answers : GetChildBlocks(answer)
    \/ \E answer \in Answers : GetDatabaseContent(answer)
    \/ \E answer \in Answers : GetMeta(answer)
    \/ \E c \in CallIds, answer \in Answers : GetUser(c, answer)
    \/ GatherUsers
    \/ \E u \in UserCalls : GatherUsersRaise(u)

InitSpecRetry ==
    InitRetry /\ IdleExport /\ IdleCrawl /\ IdleTable /\ IdleList /\ IdleNorm
SpecRetry == InitSpecRetry /\ [][NextRetry]_vars

----------------------------------------------------------------------------
(* Claims about the Retry Policy *)

Invoked(c) == call[c].st # "idle"
\* the invocation gave up: its last attempt failed retryably and was the last
\* the stop condition allows
Exhausted(c) ==
    /\ call[c].st = "raised"
    /\ call[c].last # None
    /\ retry(Value(call[c].last))

\* C9: every invocation of a retry-wrapped operation makes at most 3
\* attempts: no invocation has made more than 3, and one that has made 3 and
\* seen the third fail retryably has ended and attempts nothing more.
C9_AtMostThreeAttempts ==
    \A c \in CallIds :
        Invoked(c) =>
            /\ call[c].tries <= 3
            /\ call[c].tries = 3 => call[c].st # "attempting"

\* three attempts of the invocation failed retryably
C9_Witness ==
    /\ Exhausted("main") /\ call["main"].tries = 3
    /\ call["main"].op = "_get_child_blocks"

\* C10: when the retry budget is exhausted, the failure that reaches the
\* caller is the last attempt's failure itself, with its kind, not an error
\* that wraps it.
C10_FinalFailureUnchanged ==
    \A c \in CallIds : Exhausted(c) => call[c].raised = call[c].last

\* the kinds of failure the claim lists as rate-limited or transiently
\* unavailable
RateLimitedOrUnavailable(e) ==
    \/ e.code \in {"rate_limited", "service_unavailable", "database_connection_unavailable",
                   "internal_server_error", "gateway_timeout"}
    \/ e.cls = "RequestTimeoutError"
    \/ e.status = 504
Ended(c) == call[c].st \in {"returned", "raised"}

\* C11: an invocation makes a further attempt only after a Gateway failure
\* that is rate-limited or transiently unavailable; after a Gateway failure
\* of any other kind it has ended, a first attempt being the only one.
C11_RetriedOnlyWhenClassified ==
    \A c \in CallIds :
        (Invoked(c) /\ call[c].tries >= 1) =>
            /\ call[c].st = "attempting" =>
                  /\ call[c].failure # None
                  /\ RateLimitedOrUnavailable(Value(call[c].failure))
            /\ (call[c].failure # None /\ ~RateLimitedOrUnavailable(Value(call[c].failure))) =>
                  Ended(c)

\* a permission failure ended the page metadata fetch at its first attempt
C11_Witness ==
    /\ call["main"].op = "_get_page_meta" /\ call["main"].st = "raised"
    /\ call["main"].tries = 1
    /\ call["main"].failure # None
    /\ Value(call["main"].failure).code = "unauthorized"
    /\ call["main"].raised = call["main"].failure

\* an attempt failed and the next one is waited for
Waiting(c) == Invoked(c) /\ call[c].st = "attempting" /\ call[c].tries >= 1
\* the exponential backoff after the first and after the second attempt
Backoff(tries) == IF tries = 1 THEN 1 ELSE 2

C21_UserLookupNeverFailsMeta ==
    /\ \A c \in CallIds :
          (call[c].op = "_get_user" /\ Ended(c) /\ call[c].failure # None) =>
              call[c].st = "returned" /\ call[c].result = "Unknown"
    /\ (call["main"].op \in MetaOps /\ call["main"].st = "raised") =>
          call["main"].failure # None

\* C26: at every call site, an attempt that the Gateway failed as rate-limited
\* or transiently unavailable, the budget of 3 attempts not being used up, is
\* followed by another attempt: the invocation has neither raised nor
\* returned.
C26_EveryCallSiteRetries ==
    \A c \in CallIds :
        (Invoked(c) /\ call[c].failure # None
         /\ RateLimitedOrUnavailable(Value(call[c].failure))
         /\ call[c].tries < max_attempt_number) =>
            call[c].st = "attempting"

----------------------------------------------------------------------------
(* The Tree Crawler: one crawl of a page, _get_block_content and the tasks  *)
(* it spawns                                                                *)

\* the blocks under the crawled page
NBlocks == 4
Blocks == 1..NBlocks
\* the id the crawl starts from
RootId == 0

\* The Gateway's tree: block b is listed under par[b], the crawled page or a
\* block of a smaller id, one of the two ids before its own, and a listing
\* returns its blocks by ascending id.
Trees ==
    {f \in [Blocks -> 0..(NBlocks - 1)] : \A b \in Blocks : f[b] < b /\ f[b] >= b - 2}
BlockTypes == {"table_row", "bulleted_list_item", "child_page", "child_database"}
\* the synthetic row _add_delimiter_to_table makes for the listing of t: it
\* has no id of its own, the model tags it with the listing it is put in
DelimiterRow(t) == -(t + 1)
IsDelimiterRow(b) == b < 0
\* block["type"]
BlockType(b) == IF IsDelimiterRow(b) THEN "table_row" ELSE btype[b]

ChildSet(b) == {c \in Blocks : par[c] = b}
RECURSIVE Ascending(_)
Ascending(S) ==
    IF S = {} THEN <<>>
    ELSE LET m == CHOOSE x \in S : \A y \in S : x <= y
         IN <<m>> \o Ascending(S \ {m})
\* async_collect_paginated_api(self.notion.blocks.children.list, block_id)
Listing(b) == Ascending(ChildSet(b))
\* block["has_children"]
HasChildren(b) == ~IsDelimiterRow(b) /\ ChildSet(b) # {}
\* _add_delimiter_to_table (exporter.py 422-452): table_row_blocks.insert(1, delimiter_row)
AddDelimiterToTable(table_row_blocks, t) == ListInsert1(table_row_blocks, DelimiterRow(t))

\* exporter.py 183-185
IsChildPage(b) == BlockType(b) = "child_page"
IsChildDatabase(b) == BlockType(b) = "child_database"
IsListItem(b) ==
    BlockType(b) \in {"bulleted_list_item", "numbered_list_item", "to_do", "toggle"}
\* a task is created for the block (exporter.py 197)
Recursed(b) == HasChildren(b) /\ ~(IsChildPage(b) \/ IsChildDatabase(b))

\* variant: the tabs of the level, for whatever block
ConvertBlockAlwaysIndented(b, indent, indent_level) == [id |-> b, tabs |-> indent_level]

\* BlockConverter.convert_block: the line of a block is the block's own text
\* behind indent_level tabs, when indent is set (block_converter.py 47-59)
ConvertBlock(b, indent, indent_level) ==
    [id |-> b, tabs |-> IF indent THEN indent_level ELSE 0]

NoTask ==
    [st |-> "idle", parent_is_list_item |-> FALSE, indent_level |-> 0,
     blocks |-> <<>>, own |-> <<>>, lines |-> <<>>, child_database_ids |-> {},
     failure |-> None, raised |-> None]
\* the coroutine of _get_block_content up to its first await (exporter.py
\* 164-177)
NewTask(pili, lvl) ==
    [NoTask EXCEPT !.st = "listing", !.parent_is_list_item = pili, !.indent_level = lvl]

Range(q) == {q[i] : i \in 1..Len(q)}
Pos(q, x) == CHOOSE i \in 1..Len(q) : q[i] = x

\* variant: the subtrees are appended as their tasks complete
RECURSIVE CompletionFrom(_, _, _)
CompletionFrom(own, task_lines, left) ==
    IF left = {} THEN <<>>
    ELSE LET rank(i) == IF own[i].id \in Range(finished)
                        THEN Pos(finished, own[i].id) ELSE 0
             i == CHOOSE x \in left :
                      \A y \in left : rank(x) < rank(y) \/ (rank(x) = rank(y) /\ x <= y)
         IN <<own[i]>> \o task_lines[i] \o CompletionFrom(own, task_lines, left \ {i})
AssembleInCompletionOrder(own, task_lines) == CompletionFrom(own, task_lines, DOMAIN own)

\* the reassembly (exporter.py 216-221): each block's line, then the lines of
\* its task, in the order of the listing
RECURSIVE AssembleFrom(_, _, _)
AssembleFrom(own, task_lines, i) ==
    IF i > Len(own) THEN <<>>
    ELSE <<own[i]>> \o task_lines[i] \o AssembleFrom(own, task_lines, i + 1)
Assemble(own, task_lines) == AssembleFrom(own, task_lines, 1)

\* task.result()[0]: a block without a task has a Future holding no lines
\* (exporter.py 207-208, 219)
TaskLines(b) == IF Recursed(b) THEN task[b].lines ELSE <<>>

\* how the Gateway answers the last attempt of a listing: the blocks, or a
\* failure
ListingAnswers ==
    {None,
     Some(APIResponseError("object_not_found", 404, None)),
     Some(APIResponseError("validation_error", 400, None)),
     Some(APIResponseError("rate_limited", 429, None))}
\* what the invocation of _get_child_blocks raises when its last attempt
\* raised exc
Propagated(exc) == IF retry(exc) THEN WhenStopped(exc) ELSE exc

InitCrawl ==
    /\ par \in Trees
    /\ btype \in [Blocks -> BlockTypes]
    /\ task = [b \in {RootId} \cup Blocks |-> IF b = RootId THEN NewTask(FALSE, 0) ELSE NoTask]
    /\ crawl_child_page_ids = {}
    /\ finished = <<>>

\* _get_child_blocks returns, the listing or, for an id the Gateway does not
\* find, no blocks; the call puts the delimiter row in a table, renders the
\* blocks, records the child pages and databases, creates the tasks and
\* suspends in gather (exporter.py 177-214)
ChildBlocksReturn(t, answer) ==
    /\ task[t].st = "listing"
    /\ ~GetChildBlocksBody(answer).failed
    /\ LET found == GetChildBlocksBody(answer).result = "blocks"
           listed == IF found THEN Listing(t) ELSE <<>>
           blocks == IF listed # <<>> /\ BlockType(listed[1]) = "table_row"
                     THEN AddDelimiterToTable(listed, t)
                     ELSE listed
           me == task[t]
           own == [i \in 1..Len(blocks) |->
                     ConvertBlock(blocks[i], me.parent_is_list_item /\ IsListItem(blocks[i]),
                                  me.indent_level)]
           spawned == {b \in Range(blocks) : Recursed(b)}
       IN /\ task' = [b \in DOMAIN task |->
                        IF b = t
                        THEN [me EXCEPT !.st = "joining", !.blocks = blocks, !.own = own,
                                        !.failure = answer,
                                        !.child_database_ids =
                                            {c \in Range(blocks) : IsChildDatabase(c)}]
                        ELSE IF b \in spawned
                        THEN NewTask(IsListItem(b), me.indent_level + 1)
                        ELSE task[b]]
          /\ crawl_child_page_ids' =
                 crawl_child_page_ids \cup {c \in Range(blocks) : IsChildPage(c)}
    /\ UNCHANGED <<notCrawl, par, btype, finished>>

\* _get_child_blocks raises
ChildBlocksRaise(t, answer) ==
    /\ task[t].st = "listing"
    /\ GetChildBlocksBody(answer).failed
    /\ task' = [task EXCEPT
                  ![t].st = "raised",
                  ![t].failure = answer,
                  ![t].raised = Some(Propagated(Value(GetChildBlocksBody(answer).exception)))]
    /\ UNCHANGED <<notCrawl, par, btype, crawl_child_page_ids, finished>>

\* gather is through, every task of the call is done: reassemble and return
\* (exporter.py 214-223)
Join(t) ==
    /\ task[t].st = "joining"
    /\ \A b \in Range(task[t].blocks) : Recursed(b) => task[b].st = "done"
    /\ task' = [task EXCEPT
                  ![t].st = "done",
                  ![t].lines = Assemble(task[t].own,
                                        [i \in 1..Len(task[t].blocks) |->
                                            TaskLines(task[t].blocks[i])])]
    /\ finished' = Append(finished, t)
    /\ UNCHANGED <<notCrawl, par, btype, crawl_child_page_ids>>

\* gather raises what one of the tasks raised (exporter.py 214)
JoinRaise(t) ==
    /\ task[t].st = "joining"
    /\ \E b \in Range(task[t].blocks) :
          /\ Recursed(b) /\ task[b].st = "raised"
          /\ task' = [task EXCEPT ![t].st = "raised", ![t].raised = task[b].raised]
    /\ UNCHANGED <<notCrawl, par, btype, crawl_child_page_ids, finished>>

NextCrawl ==
    \/ \E t \in {RootId} \cup Blocks, answer \in ListingAnswers : ChildBlocksReturn(t, answer)
    \/ \E t \in {RootId} \cup Blocks, answer \in ListingAnswers : ChildBlocksRaise(t, answer)
    \/ \E t \in {RootId} \cup Blocks : Join(t)
    \/ \E t \in {RootId} \cup Blocks : JoinRaise(t)

InitSpecCrawl ==
    InitCrawl /\ IdleExport /\ IdleRetry /\ IdleTable /\ IdleList /\ IdleNorm
SpecCrawl == InitSpecCrawl /\ [][NextCrawl]_vars

----------------------------------------------------------------------------
(* Claims about the Tree Crawler *)

\* the walk the claim describes, over the listings the Gateway returned: each
\* block of the listing of b, from the i-th on, followed by the walk of its
\* own listing if a task crawled it
RECURSIVE PreOrderFrom(_, _)
PreOrderFrom(b, i) ==
    LET bl == task[b].blocks
    IN IF i > Len(bl) THEN <<>>
       ELSE <<bl[i]>> \o (IF Recursed(bl[i]) THEN PreOrderFrom(bl[i], 1) ELSE <<>>)
                      \o PreOrderFrom(b, i + 1)

LineIds(lines) == [i \in 1..Len(lines) |-> lines[i].id]

\* C1: the lines a call of _get_block_content returns are the depth-first
\* pre-order walk of what the Gateway listed, each sibling's line followed by
\* its subtree's; two siblings' lines are in the order of the listing
\* whatever the order in which the tasks completed.
C1_PreOrder ==
    \A t \in DOMAIN task :
        task[t].st = "done" =>
            /\ LineIds(task[t].lines) = PreOrderFrom(t, 1)
            /\ \A i, j \in 1..Len(task[t].blocks) :
                  i < j => Pos(LineIds(task[t].lines), task[t].blocks[i])
                              < Pos(LineIds(task[t].lines), task[t].blocks[j])

\* the second of two sibling subtrees completed first
C1_Witness ==
    /\ task[RootId].st = "done"
    /\ \E a, b \in Range(task[RootId].blocks) :
          /\ a < b /\ Recursed(a) /\ Recursed(b)
          /\ Pos(finished, b) < Pos(finished, a)
          /\ Len(task[a].lines) >= 1 /\ Len(task[b].lines) >= 1

NotFoundFailure(t) ==
    task[t].failure # None /\ Value(task[t].failure).code = "object_not_found"
\* a failure that is neither not-found nor one the Retry Policy retries
OtherFinalFailure(t) ==
    /\ task[t].failure # None
    /\ Value(task[t].failure).code \notin {"object_not_found", "rate_limited"}
SubCrawls(t) == {b \in Range(task[t].blocks) : Recursed(b)}

\* C13: a listing the Gateway fails as not found counts as an empty list and
\* its crawl goes on to return no lines, without an error; any other
\* non-retryable failure of a listing is raised by its crawl as it is, and a
\* crawl one of whose sub-crawls raised raises the same failure and never
\* returns.
C13_NotFoundIsEmptyOthersAbort ==
    \A t \in DOMAIN task :
        /\ NotFoundFailure(t) =>
              /\ task[t].st \in {"joining", "done"}
              /\ task[t].blocks = <<>> /\ task[t].raised = None
              /\ task[t].st = "done" => task[t].lines = <<>>
        /\ OtherFinalFailure(t) =>
              task[t].st = "raised" /\ task[t].raised = task[t].failure
        /\ task[t].st = "done" => \A b \in SubCrawls(t) : task[b].st = "done"
        /\ (task[t].st = "raised" /\ task[t].failure = None) =>
              \E b \in SubCrawls(t) :
                  task[b].st = "raised" /\ task[b].raised = task[t].raised

\* the crawl of the root returned although the listing of one of its blocks
\* was not found
C13_Witness ==
    /\ task[RootId].st = "done"
    /\ \E b \in SubCrawls(RootId) : NotFoundFailure(b) /\ task[b].st = "done"
    /\ Len(task[RootId].lines) >= 2

\* the blocks the crawl came upon: those of the listings it was returned
Found == UNION {Range(task[t].blocks) : t \in DOMAIN task}

\* C23: once the crawl of the root has returned, every child_page block found
\* at any depth is in the page set it returns and every child_database block
\* found at any depth is in the database set it returns; the children of such
\* a block are never listed, has_children or not.
C23_ReferencesDiscoveredAtAnyDepth ==
    /\ \A b \in Blocks : (IsChildPage(b) \/ IsChildDatabase(b)) => task[b].st = "idle"
    /\ task[RootId].st = "done" =>
          \A b \in Found :
              /\ IsChildPage(b) => b \in crawl_child_page_ids
              /\ IsChildDatabase(b) => b \in task[RootId].child_database_ids

\* the nesting depth of a block below the crawled page
RECURSIVE Depth(_)
Depth(b) == IF b = RootId THEN 0 ELSE 1 + Depth(par[b])
\* the crawl of t has rendered its listing
Rendered(t) == task[t].st \in {"joining", "done"}
\* the block whose listing t is is a list-type item
UnderListItem(t) == t # RootId /\ IsListItem(t)
\* the levels of the crawls: a crawl runs at the depth of the block it lists
\* and is told whether that block is a list-type item
LevelsFollowTheTree ==
    \A t \in DOMAIN task :
        task[t].st # "idle" =>
            /\ task[t].indent_level = Depth(t)
            /\ task[t].parent_is_list_item = UnderListItem(t)

\* C28 as stated: with the levels following the tree, a block under a
\* list-type item is rendered behind indent_level tabs, whatever its own type,
\* and a block under any other block or under the page behind none.
C28_IndentedUnderListItem ==
    /\ LevelsFollowTheTree
    /\ \A t \in DOMAIN task :
          Rendered(t) =>
              \A i \in 1..Len(task[t].blocks) :
                  task[t].own[i].tabs = IF UnderListItem(t) THEN task[t].indent_level ELSE 0

\* C28, amended: with the levels following the tree, a block is rendered
\* behind indent_level tabs when it is a list-type item under a list-type
\* item, and behind none otherwise: a block that is no list-type item gets no
\* prefix even under a list-type item.
C28_ListItemIndentedUnderListItem ==
    /\ LevelsFollowTheTree
    /\ \A t \in DOMAIN task :
          Rendered(t) =>
              \A i \in 1..Len(task[t].blocks) :
                  task[t].own[i].tabs =
                      IF UnderListItem(t) /\ IsListItem(task[t].blocks[i])
                      THEN task[t].indent_level ELSE 0

\* a list item at depth 3 was rendered behind 2 tabs and a table row beside it
\* behind none
C28_Witness ==
    /\ par = <<0, 1, 2, 2>>
    /\ \A b \in 1..3 : btype[b] = "bulleted_list_item"
    /\ btype[4] = "table_row"
    /\ task[RootId].st = "done"
    /\ task[2].indent_level = 2 /\ task[2].parent_is_list_item
    /\ task[2].own[1] = [id |-> 3, tabs |-> 2]
    /\ task[2].own[2] = [id |-> 4, tabs |-> 0]

----------------------------------------------------------------------------
(* The head of _get_block_content for one listing: the delimiter row of a   *)
(* table and the rendering of the blocks                                    *)

\* the blocks of a listing, and the cells of a table row
MaxRows == 3
MaxCells == 3

\* a rich text item, by its plain_text
Text(chars) == [plain_text |-> chars]
\* a table_row block with n cells of one rich text item each, a paragraph
Row(n) == [type |-> "table_row", has_children |-> FALSE,
           cells |-> [i \in 1..n |-> <<Text(<<"x">>)>>]]
Paragraph == [type |-> "paragraph", has_children |-> FALSE, cells |-> <<>>]
ListedBlocks == {Paragraph} \cup {Row(n) : n \in 1..MaxCells}
\* the Gateway's listings: each block with its id, its place in the listing
Listings ==
    UNION {{[i \in 1..n |-> [id |-> i, block |-> f[i]]] : f \in [1..n -> ListedBlocks]}
           : n \in 0..MaxRows}

\* the delimiter_row of _add_delimiter_to_table (exporter.py 424-449): it has
\* no id
delimiter_row(num_columns) ==
    [id |-> 0,
     block |-> [type |-> "table_row", has_children |-> FALSE,
                cells |-> [i \in 1..num_columns |-> <<Text(<<"-", "-", "-">>)>>]]]
\* _add_delimiter_to_table (exporter.py 422-452)
AddDelimiterRow(table_row_blocks) ==
    ListInsert1(table_row_blocks, delimiter_row(Len(table_row_blocks[1].block.cells)))

\* notion2md's richtext_convertor, for items without annotations or links:
\* their plain texts, joined
RECURSIVE richtext_convertor(_)
richtext_convertor(cell) ==
    IF cell = <<>> THEN <<>> ELSE cell[1].plain_text \o richtext_convertor(Tail(cell))
\* "|".join(cells) + "|"
RECURSIVE JoinCells(_)
JoinCells(cells) ==
    IF cells = <<>> THEN <<>>
    ELSE richtext_convertor(cells[1]) \o <<"|">> \o JoinCells(Tail(cells))
\* BlockConverter.table_row (block_converter.py 235-242)
table_row(block) == <<"|">> \o JoinCells(block.cells)
\* BlockConverter.convert_block for the two types of the listings
ConvertListed(b) == IF b.block.type = "table_row" THEN table_row(b.block) ELSE <<"p">>

InitTable ==
    /\ fetched \in Listings
    /\ table_blocks = <<>>
    /\ markdown_rows = <<>>
    /\ table_pc = "listed"

\* exporter.py 178-179
TableHead ==
    /\ table_pc = "listed"
    /\ table_blocks' = IF fetched # <<>> /\ fetched[1].block.type = "table_row"
                       THEN AddDelimiterRow(fetched)
                       ELSE fetched
    /\ table_pc' = "render"
    /\ UNCHANGED <<notTable, fetched, markdown_rows>>

\* one iteration of the for loop, as far as it renders (exporter.py 182-191)
RenderBlock ==
    /\ table_pc = "render"
    /\ Len(markdown_rows) < Len(table_blocks)
    /\ markdown_rows' =
           Append(markdown_rows, ConvertListed(table_blocks[Len(markdown_rows) + 1]))
    /\ UNCHANGED <<notTable, fetched, table_blocks, table_pc>>

NextTable == TableHead \/ RenderBlock

InitSpecTable ==
    InitTable /\ IdleExport /\ IdleCrawl /\ IdleRetry /\ IdleList /\ IdleNorm
SpecTable == InitSpecTable /\ [][NextTable]_vars

----------------------------------------------------------------------------
(* Claims about the table's head *)

IsTable == fetched # <<>> /\ fetched[1].block.type = "table_row"
Synthetic(b) == b.id = 0
\* the rendering of a row of n cells that each render as ---
DelimiterLine(n) ==
    <<"|">> \o IF n = 1 THEN <<"-", "-", "-", "|">>
               ELSE IF n = 2 THEN <<"-", "-", "-", "|", "-", "-", "-", "|">>
               ELSE IF n = 3 THEN <<"-", "-", "-", "|", "-", "-", "-", "|", "-", "-", "-", "|">>
               ELSE <<"-", "-", "-", "|", "-", "-", "-", "|", "-", "-", "-", "|", "-", "-", "-", "|">>

\* C17: when the listing is not empty and starts with a table row, the list
\* that is rendered is the listing with one synthetic row put in at index 1:
\* one element longer, the original rows in their order around it, the row
\* with as many cells as the first row, and it renders as that many ---;
\* an empty listing and one that starts with another block are rendered as
\* they are.
C17_DelimiterRowAtIndexOne ==
    table_pc = "render" =>
        IF IsTable
        THEN /\ Len(table_blocks) = Len(fetched) + 1
             /\ table_blocks[1] = fetched[1]
             /\ \A i \in 2..Len(fetched) : table_blocks[i + 1] = fetched[i]
             /\ Synthetic(table_blocks[2])
             /\ Cardinality({i \in 1..Len(table_blocks) : Synthetic(table_blocks[i])}) = 1
             /\ table_blocks[2].block.type = "table_row"
             /\ Len(table_blocks[2].block.cells) = Len(fetched[1].block.cells)
             /\ Len(markdown_rows) >= 2 =>
                   markdown_rows[2] = DelimiterLine(Len(fetched[1].block.cells))
        ELSE table_blocks = fetched

\* three rows of three cells were rendered as four lines, the second of them
\* the delimiter
C17_Witness ==
    /\ table_pc = "render"
    /\ Len(fetched) = 3
    /\ \A i \in 1..3 : fetched[i].block = Row(3)
    /\ Len(table_blocks) = 4
    /\ Len(markdown_rows) = 4
    /\ markdown_rows[2] = <<"|", "-", "-", "-", "|", "-", "-", "-", "|", "-", "-", "-", "|">>

----------------------------------------------------------------------------
(* The numbered list counters of one BlockConverter *)

\* the numbered list items one BlockConverter renders, the fetch calls that
\* bring them
MaxItems == 7
MaxBatches == 2

\* the ids of the blocks that have numbered list items as children
ListParents == {"a", "b"}

\* str(n) of a natural number
RECURSIVE StrOf(_)
StrOf(n) == IF n < 10 THEN <<Digits[n + 1]>> ELSE StrOf(n \div 10) \o <<Digits[(n % 10) + 1]>>

\* a variant of CountItem: one count for all parents
CountItemShared(counters, parent_id) ==
    [x \in DOMAIN counters \cup {parent_id} |->
        (IF x \in DOMAIN counters THEN counters[x] ELSE 0) + 1]
\* self._numbered_list_counters[parent_id] += 1 on a defaultdict(int)
\* (block_converter.py 45, 201)
CountItem(counters, parent_id) ==
    DictSet(counters, parent_id,
            (IF parent_id \in DOMAIN counters THEN counters[parent_id] ELSE 0) + 1)

\* f"{number}. {text}" (block_converter.py 204)
NumberedLine(number, text) == StrOf(number) \o <<".", " ">> \o text

InitList ==
    /\ numbered_list_counters = EmptyDict
    /\ numbered_lines = <<>>
    /\ batch = 1

\* BlockConverter.numbered_list_item on an item of parent p
\* (block_converter.py 194-204)
NumberedListItem(p) ==
    /\ batch >= 1
    /\ Len(numbered_lines) < MaxItems
    /\ numbered_list_counters' = CountItem(numbered_list_counters, p)
    /\ numbered_lines' =
           Append(numbered_lines,
                  [parent |-> p, batch |-> batch,
                   line |-> NumberedLine(numbered_list_counters'[p], <<"x">>)])
    /\ UNCHANGED <<notList, batch>>

\* the next fetch call's blocks come to the same BlockConverter
\* (exporter.py 43, 177, 187)
NextBatch ==
    /\ batch >= 1
    /\ batch < MaxBatches
    /\ batch' = batch + 1
    /\ UNCHANGED <<notList, numbered_list_counters, numbered_lines>>

NextList == (\E p \in ListParents : NumberedListItem(p)) \/ NextBatch

InitSpecList ==
    InitList /\ IdleExport /\ IdleCrawl /\ IdleRetry /\ IdleTable /\ IdleNorm
SpecList == InitSpecList /\ [][NextList]_vars

----------------------------------------------------------------------------
(* Claims about the numbered list counters *)

\* the items of parent p among the first i rendered
ItemsUnder(p, i) == {j \in 1..i : numbered_lines[j].parent = p}

\* C18: the k-th numbered list item ever rendered under a parent gets the
\* number k, whatever the fetch call that brought it and whatever was rendered
\* under other parents in between; the counter of a parent is the number of
\* items rendered under it so far, so it was never reset or decreased.
C18_ItemNumberIsItsRank ==
    /\ \A i \in 1..Len(numbered_lines) :
          numbered_lines[i].line =
              NumberedLine(Cardinality(ItemsUnder(numbered_lines[i].parent, i)), <<"x">>)
    /\ \A p \in ListParents :
          LET n == Cardinality(ItemsUnder(p, Len(numbered_lines)))
          IN  IF n = 0 THEN p \notin DOMAIN numbered_list_counters
              ELSE p \in DOMAIN numbered_list_counters /\ numbered_list_counters[p] = n

\* three items under a in the first batch got 1-3, one item under b got 1, and
\* three more items under a in the second batch got 4-6
C18_Witness ==
    /\ Len(numbered_lines) = 7
    /\ \A i \in {1, 2, 3, 5, 6, 7} : numbered_lines[i].parent = "a"
    /\ numbered_lines[4].parent = "b"
    /\ \A i \in 1..3 : numbered_lines[i].batch = 1
    /\ \A i \in 5..7 : numbered_lines[i].batch = 2
    /\ numbered_lines[3].line = <<"3", ".", " ", "x">>
    /\ numbered_lines[4].line = <<"1", ".", " ", "x">>
    /\ numbered_lines[5].line = <<"4", ".", " ", "x">>
    /\ numbered_lines[7].line = <<"6", ".", " ", "x">>

----------------------------------------------------------------------------
(* NotionExporter._normalize_id *)

\* the length of the ids given, the calls made one on the result of the other
MaxIdLen == 37
MaxCalls == 2

HexChars == <<"0", "1", "2", "3", "4", "5", "6", "7",
              "8", "9", "a", "b", "c", "d", "e", "f">>
\* where ids given by callers carry their dashes (as Python offsets): nowhere,
\* at the four places of the 8-4-4-4-12 form, one place early, at the first
\* place only, at the last place only
DashOffsets == {{}, {8, 13, 18, 23}, {7, 12, 17, 22}, {8}, {23}}
\* the id of n characters with dashes at the offsets D
IdOf(n, D) ==
    [i \in 1..n |-> IF (i - 1) \in D THEN "-" ELSE HexChars[((i - 1) % 16) + 1]]
\* notion_id.replace("-", "")
RECURSIVE Undashed(_)
Undashed(id) ==
    IF id = <<>> THEN <<>>
    ELSE (IF id[1] = "-" THEN <<>> ELSE <<id[1]>>) \o Undashed(Tail(id))
GivenIds == {IdOf(n, D) : n \in 0..MaxIdLen, D \in DashOffsets}
\* the ids callers give: each also in its form without dashes
IdInputs == GivenIds \cup {Undashed(id) : id \in GivenIds}

\* notion_id[a:b] for 0 <= a <= b
Slice(id, a, b) == SubSeq(id, a + 1, IF b < Len(id) THEN b ELSE Len(id))

\* a variant of Hyphenate: groups of 8-5-4-4-11
HyphenateLate(id) ==
    Slice(id, 0, 8) \o <<"-">> \o Slice(id, 8, 13) \o <<"-">> \o Slice(id, 13, 17)
        \o <<"-">> \o Slice(id, 17, 21) \o <<"-">> \o Slice(id, 21, Len(id))
\* the expression returned for an id of 32 characters (exporter.py 458-468)
Hyphenate(id) ==
    Slice(id, 0, 8) \o <<"-">> \o Slice(id, 8, 12) \o <<"-">> \o Slice(id, 12, 16)
        \o <<"-">> \o Slice(id, 16, 20) \o <<"-">> \o Slice(id, 20, Len(id))

\* the condition of the elif (exporter.py 470-476), evaluated as Python
\* evaluates a chain of and: from the left, stopping at the first false
\* operand; notion_id[k] raises IndexError when the id has no offset k
RECURSIVE NoDashAt(_, _)
NoDashAt(id, offsets) ==
    IF offsets = <<>> THEN "True"
    ELSE IF Len(id) <= offsets[1] THEN "IndexError"
    ELSE IF id[offsets[1] + 1] = "-" THEN "False"
    ELSE NoDashAt(id, Tail(offsets))
UnexpectedFormat(id) ==
    IF Len(id) = 36 THEN "False" ELSE NoDashAt(id, <<8, 13, 18, 23>>)

\* what a call of _normalize_id does
Returned(id, warned) == [returned |-> Some(id), raised |-> "", warned |-> warned]
RaisedIndexError == [returned |-> None, raised |-> "IndexError", warned |-> FALSE]

\* NotionExporter._normalize_id (exporter.py 454-479)
normalize_id(id) ==
    IF Len(id) = 32 THEN Returned(Hyphenate(id), FALSE)
    ELSE IF UnexpectedFormat(id) = "IndexError" THEN RaisedIndexError
    ELSE Returned(id, UnexpectedFormat(id) = "True")

InitNorm ==
    /\ notion_id \in IdInputs
    /\ outcomes = <<>>

\* a call of _normalize_id: on the id given, then on what the call before
\* returned
NormalizeId ==
    /\ Len(outcomes) < MaxCalls
    /\ outcomes # <<>> => outcomes[Len(outcomes)].returned # None
    /\ LET arg == IF outcomes = <<>> THEN notion_id
                  ELSE Value(outcomes[Len(outcomes)].returned)
       IN  outcomes' = Append(outcomes, normalize_id(arg))
    /\ UNCHANGED <<notNorm, notion_id>>

NextNorm == NormalizeId

InitSpecNorm ==
    InitNorm /\ IdleExport /\ IdleCrawl /\ IdleRetry /\ IdleTable /\ IdleList
SpecNorm == InitSpecNorm /\ [][NextNorm]_vars

----------------------------------------------------------------------------
(* Claims about _normalize_id *)

IsHex(ch) == \E i \in 1..Len(HexChars) : HexChars[i] = ch
\* 36 characters with dashes at the offsets 8, 13, 18 and 23
DashedForm(id) ==
    /\ Len(id) = 36
    /\ \A k \in {8, 13, 18, 23} : id[k + 1] = "-"
\* the canonical 8-4-4-4-12 form
Canonical(id) ==
    /\ DashedForm(id)
    /\ \A i \in 1..36 : (i - 1) \notin {8, 13, 18, 23} => IsHex(id[i])
\* 32 characters, none a dash
UndashedForm(id) == Len(id) = 32 /\ \A i \in 1..32 : IsHex(id[i])

\* C19: a canonical id is returned as it is, and the form of it without
\* dashes is turned into it; an id of 32 characters without dashes is returned
\* with dashes at the offsets 8, 13, 18, 23 of the result (offsets 8, 12, 16, 20
\* of the id) and nothing else changed; a second call on the result of the
\* first returns that result.
C19_NormalizeIdempotent ==
    (outcomes # <<>> /\ (Canonical(notion_id) \/ UndashedForm(notion_id))) =>
        /\ outcomes[1].raised = "" /\ outcomes[1].returned # None
        /\ Canonical(notion_id) =>
              /\ outcomes[1].returned = Some(notion_id)
              /\ normalize_id(Undashed(notion_id)).returned = Some(notion_id)
        /\ UndashedForm(notion_id) =>
              LET r == Value(outcomes[1].returned)
              IN  /\ Canonical(r)
                  /\ Undashed(r) = notion_id
                  /\ \A k \in {8, 12, 16, 20} :
                        /\ r[k + (k - 8) \div 4 + 1] = "-"
                        /\ Undashed(Slice(r, 0, k + (k - 8) \div 4)) = Slice(notion_id, 0, k)
        /\ Len(outcomes) >= 2 => outcomes[2] = outcomes[1]

\* the id 0123456789abcdef0123456789abcdef was normalized twice and both calls
\* returned 01234567-89ab-cdef-0123-456789abcdef
C19_Witness ==
    /\ notion_id = IdOf(32, {})
    /\ Len(outcomes) = 2
    /\ outcomes[1].returned =
           Some(<<"0", "1", "2", "3", "4", "5", "6", "7", "-", "8", "9", "a", "b", "-",
                  "c", "d", "e", "f", "-", "0", "1", "2", "3", "-",
                  "4", "5", "6", "7", "8", "9", "a", "b", "c", "d", "e", "f">>)
    /\ outcomes[2].returned = outcomes[1].returned

\* C20: for every id that has neither 32 characters nor the dashed form of 36
\* characters, a call emits the diagnostic, raises no error and returns the id
\* as it is.
C20_UnexpectedIdWarnedAndPassed ==
    (outcomes # <<>> /\ Len(notion_id) # 32 /\ ~DashedForm(notion_id)) =>
        /\ outcomes[1].warned
        /\ outcomes[1].raised = ""
        /\ outcomes[1].returned = Some(notion_id)

====
